---------------------------- MODULE Spec2Model ----------------------------
(***************************************************************************)
(* A model of the DBmerge table merger: the TableMergeManager component    *)
(* (its held tables, merge key, file / paste ingestion, handleMerge and    *)
(* the highlight logic of renderTable) and the App-level parsers with      *)
(* value conversion.                                                       *)
(*                                                                         *)
(* Strings are sequences of one-character strings, so that trim, split,    *)
(* toLowerCase and Number() are computed character by character.           *)
(***************************************************************************)
EXTENDS Integers, Sequences, FiniteSets, TLC

VARIABLES
    table1,       \* useState<TableRow[]>  (Main Table)
    table2,       \* useState<TableRow[]>  (Additional Table)
    mergedTable,  \* useState<TableRow[]>  (Merged Table)
    mergeKey,     \* useState('')          (merge key input)
    table,        \* App: useState<TableRow[]> of the Table Loader tab
    payload,      \* the file / clipboard content the parser specification ingests
    op,           \* the last handler that ran, its target and its alert
    edits         \* the number of inline edits made so far

vars == <<table1, table2, mergedTable, mergeKey, table, payload, op, edits>>

-----------------------------------------------------------------------------
(* Bounds of the model *)

\* total number of rows of table1 and table2 drawn for a merge
MaxRows == 3
\* length of the cell texts enumerated for the delimited parsers
MaxCellLen == 3
\* number of inline edits (cell changes and header renames) in a behaviour
MaxEdits == 2

-----------------------------------------------------------------------------
(* JavaScript strings *)

NL == "\n"
TAB == "\t"
WhiteSpace == {" ", TAB, NL}

\* s as a string of characters: S("id") is written <<"i","d">>
IsWhite(c) == c \in WhiteSpace

\* String.prototype.trim
RECURSIVE TrimLeft(_)
TrimLeft(s) ==
    IF s # <<>> /\ IsWhite(Head(s)) THEN TrimLeft(Tail(s)) ELSE s

RECURSIVE TrimRight(_)
TrimRight(s) ==
    IF s # <<>> /\ IsWhite(s[Len(s)])
    THEN TrimRight(SubSeq(s, 1, Len(s) - 1))
    ELSE s

trim(s) == TrimRight(TrimLeft(s))

\* String.prototype.toLowerCase, on the letters of the model
LowerChar(c) ==
    CASE c = "K" -> "k"
      [] c = "V" -> "v"
      [] c = "W" -> "w"
      [] c = "A" -> "a"
      [] c = "X" -> "x"
      [] OTHER -> c

toLowerCase(s) == [i \in 1..Len(s) |-> LowerChar(s[i])]

\* String.prototype.startsWith
startsWith(s, p) == Len(s) >= Len(p) /\ SubSeq(s, 1, Len(p)) = p

\* String.prototype.split on a set of one-character separators:
\* split(',') is split(s, {","}), split(/\t|,/) is split(s, {TAB, ","}),
\* split(/\r?\n/) is split(s, {NL}) (the model's texts hold no "\r")
RECURSIVE SplitAcc(_, _, _, _)
SplitAcc(s, seps, cur, acc) ==
    IF s = <<>> THEN Append(acc, cur)
    ELSE IF Head(s) \in seps
         THEN SplitAcc(Tail(s), seps, <<>>, Append(acc, cur))
         ELSE SplitAcc(Tail(s), seps, Append(cur, Head(s)), acc)

split(s, seps) == SplitAcc(s, seps, <<>>, <<>>)

\* Array.prototype.join of strings with a one-character separator
RECURSIVE join(_, _)
join(parts, sep) ==
    IF parts = <<>> THEN <<>>
    ELSE IF Len(parts) = 1 THEN parts[1]
    ELSE parts[1] \o <<sep>> \o join(Tail(parts), sep)

-----------------------------------------------------------------------------
(* JavaScript values held in a cell: string | number | undefined | null *)

Undefined == [kind |-> "undefined"]
Null == [kind |-> "null"]
Str(s) == [kind |-> "string", s |-> s]
\* a number is m * 10^e, normalised so that equal numbers are equal records
Num(m, e) == [kind |-> "number", m |-> m, e |-> e]
IntNum(n) == Num(n, 0)

\* a === b on these values (also SameValueZero of Map and Set: the model
\* holds no NaN and no -0)
StrictEq(a, b) == a = b

-----------------------------------------------------------------------------
(* TableRow: an object, as the sequence of its own properties in order *)

Keys(row) == [i \in 1..Len(row) |-> row[i].col]
Has(row, c) == \E i \in 1..Len(row) : row[i].col = c
\* row[c]: undefined when the row has no property c
Get(row, c) ==
    IF Has(row, c)
    THEN row[CHOOSE i \in 1..Len(row) : row[i].col = c].val
    ELSE Undefined
\* row[c] = v: an existing property keeps its place, a new one is appended
\* (the column names of the model are no array indices, which JavaScript
\* would order first)
Put(row, c, v) ==
    IF Has(row, c)
    THEN [i \in 1..Len(row) |->
            IF row[i].col = c THEN [col |-> c, val |-> v] ELSE row[i]]
    ELSE Append(row, [col |-> c, val |-> v])


-----------------------------------------------------------------------------
(* Number(text) of a trimmed, non-empty text *)

Digits == {"0", "1", "2", "3", "4", "5", "6", "7", "8", "9"}
DigitVal(c) ==
    CASE c = "0" -> 0 [] c = "1" -> 1 [] c = "2" -> 2 [] c = "3" -> 3
      [] c = "4" -> 4 [] c = "5" -> 5 [] c = "6" -> 6 [] c = "7" -> 7
      [] c = "8" -> 8 [] c = "9" -> 9

IsDigits(s) == s # <<>> /\ \A i \in 1..Len(s) : s[i] \in Digits

RECURSIVE DigitsVal(_)
DigitsVal(s) ==
    IF s = <<>> THEN 0
    ELSE 10 * DigitsVal(SubSeq(s, 1, Len(s) - 1)) + DigitVal(s[Len(s)])

\* the first position of a character of cs in s, or 0
FirstIn(s, cs) ==
    IF \E i \in 1..Len(s) : s[i] \in cs
    THEN CHOOSE i \in 1..Len(s) :
            s[i] \in cs /\ \A j \in 1..(i - 1) : s[j] \notin cs
    ELSE 0

\* an optional sign stripped: <<sign, rest>>
SignOf(s) ==
    IF s # <<>> /\ s[1] = "-" THEN <<-1, Tail(s)>>
    ELSE IF s # <<>> /\ s[1] = "+" THEN <<1, Tail(s)>>
    ELSE <<1, s>>

\* m * 10^e with the trailing zeros of m moved into e
RECURSIVE Normalise(_, _)
Normalise(m, e) ==
    IF m = 0 THEN Num(0, 0)
    ELSE IF m % 10 = 0 THEN Normalise(m \div 10, e + 1)
    ELSE Num(m, e)

\* StrDecimalLiteral: [+-]? (digits [. digits?] | . digits) ([eE] [+-]? digits)?
\* The result is [nan |-> TRUE] or [nan |-> FALSE, num |-> the number].
\* (The model's texts spell no "Infinity" and no 0x / 0o / 0b literal.)
NumberOf(s) ==
    LET sg    == SignOf(s)
        body  == sg[2]
        ePos  == FirstIn(body, {"e", "E"})
        mant  == IF ePos = 0 THEN body ELSE SubSeq(body, 1, ePos - 1)
        expo  == IF ePos = 0 THEN <<>> ELSE SubSeq(body, ePos + 1, Len(body))
        esg   == SignOf(expo)
        dPos  == FirstIn(mant, {"."})
        ip    == IF dPos = 0 THEN mant ELSE SubSeq(mant, 1, dPos - 1)
        fp    == IF dPos = 0 THEN <<>> ELSE SubSeq(mant, dPos + 1, Len(mant))
        mantOk == /\ ip = <<>> \/ IsDigits(ip)
                  /\ fp = <<>> \/ IsDigits(fp)
                  /\ ip # <<>> \/ fp # <<>>
        expOk == ePos = 0 \/ IsDigits(esg[2])
        ev    == IF ePos = 0 THEN 0 ELSE esg[1] * DigitsVal(esg[2])
    IN  IF mantOk /\ expOk
        THEN [nan |-> FALSE,
              num |-> Normalise(sg[1] * DigitsVal(ip \o fp), ev - Len(fp))]
        ELSE [nan |-> TRUE, num |-> Num(0, 0)]

\* mutant: a text that is no number is returned untrimmed
convertValue_Untrimmed(value) ==
    LET trimmed == trim(value)
    IN  IF trimmed = <<>> THEN Str(<<>>)
        ELSE IF ~NumberOf(trimmed).nan THEN NumberOf(trimmed).num
        ELSE Str(value)

\* App: convertValue of parseCSV / parsePastedTable
convertValue(value) ==
    LET trimmed == trim(value)
    IN  IF trimmed = <<>> THEN Str(<<>>)
        ELSE IF ~NumberOf(trimmed).nan THEN NumberOf(trimmed).num
        ELSE Str(trimmed)

-----------------------------------------------------------------------------
(* Delimited text *)

\* lowerHeaders.forEach((h, i) => (obj[h] = values[i])) of the component:
\* the raw field, or undefined past the end of the line
RECURSIVE RawRow(_, _, _, _)
RawRow(headers, values, i, obj) ==
    IF i > Len(headers) THEN obj
    ELSE RawRow(headers, values, i + 1,
                Put(obj, headers[i],
                    IF i <= Len(values) THEN Str(values[i]) ELSE Undefined))

\* lowerHeaders.forEach((h, i) => { obj[h] = convertValue(values[i] || '') })
RECURSIVE ConvertedRow(_, _, _, _)
ConvertedRow(headers, values, i, obj) ==
    IF i > Len(headers) THEN obj
    ELSE ConvertedRow(headers, values, i + 1,
                      Put(obj, headers[i],
                          convertValue(IF i <= Len(values) THEN values[i]
                                       ELSE <<>>)))

\* the header line: split, each header trimmed and lower-cased
HeadersOf(line, seps) ==
    LET hs == split(line, seps)
    IN  [i \in 1..Len(hs) |-> toLowerCase(trim(hs[i]))]

\* the shared body of the four delimited parsers
Delimited(text, seps, converting) ==
    LET lines == split(trim(text), {NL})
    IN  IF Len(lines) < 2 THEN <<>>
        ELSE LET lowerHeaders == HeadersOf(lines[1], seps)
             IN  [n \in 1..(Len(lines) - 1) |->
                    IF converting
                    THEN ConvertedRow(lowerHeaders,
                                      split(lines[n + 1], seps), 1, <<>>)
                    ELSE RawRow(lowerHeaders,
                                split(lines[n + 1], seps), 1, <<>>)]

\* TableMergeManager: parseCSV
parseCSV(text) == Delimited(text, {","}, FALSE)
\* App: parseCSV
AppParseCSV(text) == Delimited(text, {","}, TRUE)

-----------------------------------------------------------------------------
(* JSON *)

\* A decoded JSON value: an array of items, an object (its properties in
\* order, a TableRow) or a scalar (string, number, null).
JArray(items) == [t |-> "array", items |-> items]
JObject(props) == [t |-> "object", props |-> props]
JScalar(v) == [t |-> "scalar", v |-> v]

DigitChar(n) ==
    CASE n = 0 -> "0" [] n = 1 -> "1" [] n = 2 -> "2" [] n = 3 -> "3"
      [] n = 4 -> "4" [] n = 5 -> "5" [] n = 6 -> "6" [] n = 7 -> "7"
      [] n = 8 -> "8" [] n = 9 -> "9"

RECURSIVE NatStr(_)
NatStr(n) ==
    IF n < 10 THEN <<DigitChar(n)>>
    ELSE NatStr(n \div 10) \o <<DigitChar(n % 10)>>

RECURSIVE Zeros(_)
Zeros(n) == IF n <= 0 THEN <<>> ELSE <<"0">> \o Zeros(n - 1)

\* Number.prototype.toString of m * 10^e (between 1e-6 and 1e21 in
\* magnitude, where JavaScript prints plain decimal notation)
NumStr(m, e) ==
    LET abs  == IF m < 0 THEN 0 - m ELSE m
        sign == IF m < 0 THEN <<"-">> ELSE <<>>
        ds   == NatStr(abs)
        pad  == Zeros((1 - e) - Len(ds)) \o ds
    IN  IF e >= 0 THEN sign \o ds \o (IF abs = 0 THEN <<>> ELSE Zeros(e))
        ELSE sign \o SubSeq(pad, 1, Len(pad) + e) \o <<".">>
                  \o SubSeq(pad, Len(pad) + e + 1, Len(pad))

\* String(v) of a cell value
String(v) ==
    CASE v.kind = "string" -> v.s
      [] v.kind = "number" -> NumStr(v.m, v.e)
      [] v.kind = "null" -> <<"n", "u", "l", "l">>
      [] OTHER -> <<"u", "n", "d", "e", "f", "i", "n", "e", "d">>

Quoted(s) == <<"\"">> \o s \o <<"\"">>

\* the compact JSON text of a value (strings hold no character
\* that needs escaping)
RECURSIVE JSONText(_)
JSONText(j) ==
    CASE j.t = "scalar" ->
            IF j.v.kind = "string" THEN Quoted(j.v.s) ELSE String(j.v)
      [] j.t = "object" ->
            <<"{">> \o
            join([i \in 1..Len(j.props) |->
                    Quoted(j.props[i].col) \o <<":">> \o
                    JSONText(JScalar(j.props[i].val))], ",")
            \o <<"}">>
      [] j.t = "array" ->
            <<"[">> \o
            join([i \in 1..Len(j.items) |-> JSONText(j.items[i])], ",")
            \o <<"]">>

-----------------------------------------------------------------------------
(* The payloads of the model: JSON documents, delimited texts, sheets *)

K == <<"k">>
V == <<"v">>
W == <<"w">>
Prop(c, v) == [col |-> c, val |-> v]

\* the JSON documents a .json file or a paste may hold
JSONValues ==
    { JArray(<<>>),
      JArray(<<JObject(<<Prop(<<"K">>, IntNum(1)), Prop(V, Str(<<"x">>))>>)>>),
      JArray(<<JObject(<<Prop(K, IntNum(1)), Prop(V, Str(<<>>))>>),
               JObject(<<Prop(K, IntNum(2)), Prop(W, Null)>>)>>),
      JArray(<<JObject(<<Prop(K, Str(<<"1">>)), Prop(<<"K">>, IntNum(2))>>)>>),
      JArray(<<JScalar(IntNum(1))>>),
      JArray(<<JScalar(Str(<<"a">>))>>),
      JArray(<<JScalar(Null)>>),
      JArray(<<JArray(<<JScalar(IntNum(1))>>)>>),
      JArray(<<JObject(<<Prop(K, IntNum(1))>>), JScalar(IntNum(2))>>),
      JObject(<<Prop(K, IntNum(1))>>),
      JScalar(IntNum(1)) }

\* JSON.parse(text): the document whose text it is (white space around it
\* is insignificant), or a SyntaxError
JSONparse(text) ==
    IF \E j \in JSONValues : JSONText(j) = trim(text)
    THEN [threw |-> FALSE,
          value |-> CHOOSE j \in JSONValues : JSONText(j) = trim(text)]
    ELSE [threw |-> TRUE, value |-> JScalar(Null)]

\* the own enumerable properties Object.keys(row) walks and row[k] reads,
\* for an array element that may be no object: a number has none, a string
\* has its characters and an array its elements, under their indices
OwnProps(item) ==
    CASE item.t = "object" -> item.props
      [] item.t = "array" ->
            [n \in 1..Len(item.items) |->
                Prop(NatStr(n - 1), item.items[n].v)]
      [] item.t = "scalar" /\ item.v.kind = "string" ->
            [n \in 1..Len(item.v.s) |->
                Prop(NatStr(n - 1), Str(<<item.v.s[n]>>))]
      [] OTHER -> <<>>

\* Object.keys(row).forEach(k => { newRow[k.toLowerCase()] = row[k] })
RECURSIVE LowerKeys(_, _, _)
LowerKeys(props, n, newRow) ==
    IF n > Len(props) THEN newRow
    ELSE LowerKeys(props, n + 1,
                   Put(newRow, toLowerCase(props[n].col), props[n].val))

\* JSON.parse(text) followed by arr.map(row => newRow): it throws when the
\* text is no JSON, when the document has no map (it is no array) and when
\* Object.keys is handed null
jsonRows(text) ==
    LET p == JSONparse(text)
    IN  IF p.threw \/ p.value.t # "array"
           \/ \E n \in 1..Len(p.value.items) : p.value.items[n] = JScalar(Null)
        THEN [threw |-> TRUE, data |-> <<>>]
        ELSE [threw |-> FALSE,
              data |-> [n \in 1..Len(p.value.items) |->
                          LowerKeys(OwnProps(p.value.items[n]), 1, <<>>)]]

\* mutant: a failed JSON attempt ends the parse with no rows
parsePastedTable_NoFallback(text) ==
    IF startsWith(trim(text), <<"[">>)
    THEN jsonRows(text).data
    ELSE Delimited(text, {TAB, ","}, FALSE)

\* TableMergeManager: parsePastedTable
parsePastedTable(text) ==
    IF startsWith(trim(text), <<"[">>) /\ ~jsonRows(text).threw
    THEN jsonRows(text).data
    ELSE Delimited(text, {TAB, ","}, FALSE)

\* App: parsePastedTable
AppParsePastedTable(text) ==
    IF startsWith(trim(text), <<"[">>) /\ ~jsonRows(text).threw
    THEN jsonRows(text).data
    ELSE Delimited(text, {TAB, ","}, TRUE)

\* XLSX.utils.sheet_to_json(sheet, {defval: ''}) followed by raw.map
sheetRows(sheet) ==
    [n \in 1..Len(sheet) |-> LowerKeys(sheet[n], 1, <<>>)]

\* reader.onload of handleFile: the alert raised, whether setTable is
\* called, and the data it is called with
handleFile(file) ==
    IF file.ext = "json"
    THEN IF jsonRows(file.text).threw
         THEN [alert |-> "parseError", set |-> FALSE, data |-> <<>>]
         ELSE [alert |-> "none", set |-> TRUE, data |-> jsonRows(file.text).data]
    ELSE IF file.ext = "csv"
    THEN [alert |-> "none", set |-> TRUE, data |-> parseCSV(file.text)]
    ELSE IF file.ext = "xlsx"
    THEN [alert |-> "none", set |-> TRUE, data |-> sheetRows(file.sheet)]
    ELSE [alert |-> "unsupported", set |-> TRUE, data |-> <<>>]

\* App: reader.onload of handleFile (the Table Loader's)
appHandleFile(file) ==
    IF file.ext = "json"
    THEN IF jsonRows(file.text).threw
         THEN [alert |-> "parseError", set |-> FALSE, data |-> <<>>]
         ELSE [alert |-> "none", set |-> TRUE, data |-> jsonRows(file.text).data]
    ELSE IF file.ext = "csv"
    THEN [alert |-> "none", set |-> TRUE, data |-> AppParseCSV(file.text)]
    ELSE IF file.ext = "xlsx"
    THEN [alert |-> "none", set |-> TRUE, data |-> sheetRows(file.sheet)]
    ELSE [alert |-> "unsupported", set |-> TRUE, data |-> <<>>]

\* handlePaste: parsePastedTable does not throw, setTable is always called
handlePaste(text) ==
    [alert |-> "none", set |-> TRUE, data |-> parsePastedTable(text)]

\* App: handlePaste (the Table Loader's)
appHandlePaste(text) ==
    [alert |-> "none", set |-> TRUE, data |-> AppParsePastedTable(text)]

\* mutant: the effect fills in the merge key only while it is empty
EffectKey_OnlyWhenEmpty(t2, mKey) ==
    IF Len(t2) > 0 /\ Len(t2[1]) > 0 /\ t2[1][1].col # <<>>
       /\ mKey = <<>>
    THEN t2[1][1].col
    ELSE mKey

\* useEffect(..., [table2]): the merge key after table2 was replaced by t2
EffectKey(t2, mKey) ==
    IF Len(t2) > 0 /\ Len(t2[1]) > 0 /\ t2[1][1].col # <<>>
       /\ toLowerCase(mKey) # toLowerCase(t2[1][1].col)
    THEN t2[1][1].col
    ELSE mKey

-----------------------------------------------------------------------------
(* handleMerge *)

\* mutant: the first entry with a key wins
MapSet_FirstWins(m, k, j) ==
    IF \E n \in 1..Len(m) : StrictEq(m[n].k, k)
    THEN m
    ELSE Append(m, [k |-> k, j |-> j])

\* new Map(table2.map(row => [row[key], row])): the entries in insertion
\* order; a later entry with an equal key replaces the value of the earlier
\* one. The value is kept as the row's index in table2.
MapSet(m, k, j) ==
    IF \E n \in 1..Len(m) : StrictEq(m[n].k, k)
    THEN [n \in 1..Len(m) |->
            IF StrictEq(m[n].k, k) THEN [k |-> k, j |-> j] ELSE m[n]]
    ELSE Append(m, [k |-> k, j |-> j])

RECURSIVE Table2Map(_, _, _, _)
Table2Map(t2, key, j, m) ==
    IF j > Len(t2) THEN m
    ELSE Table2Map(t2, key, j + 1, MapSet(m, Get(t2[j], key), j))

\* mutant: the lookup compares the keys as printed
MapGet_Loose(m, k) ==
    IF \E n \in 1..Len(m) : String(m[n].k) = String(k)
    THEN m[CHOOSE n \in 1..Len(m) : String(m[n].k) = String(k)].j
    ELSE 0

\* table2Map.get(k): the index of the row, 0 for undefined
MapGet(m, k) ==
    IF \E n \in 1..Len(m) : StrictEq(m[n].k, k)
    THEN m[CHOOSE n \in 1..Len(m) : StrictEq(m[n].k, k)].j
    ELSE 0

\* row2[col] !== undefined && row2[col] !== null && row2[col] !== ''
NonEmpty(v) == v # Undefined /\ v # Null /\ v # Str(<<>>)

\* mutant: a value of row2 fills a column mergedRow lacks and never
\* replaces one
RECURSIVE Overlay_KeepsTable1(_, _, _)
Overlay_KeepsTable1(mergedRow, row2, n) ==
    IF n > Len(row2) THEN mergedRow
    ELSE Overlay_KeepsTable1(
            IF NonEmpty(row2[n].val) /\ ~Has(mergedRow, row2[n].col)
            THEN Put(mergedRow, row2[n].col, row2[n].val)
            ELSE mergedRow,
            row2, n + 1)

\* mutant: the empty string overwrites too
RECURSIVE Overlay_EmptyString(_, _, _)
Overlay_EmptyString(mergedRow, row2, n) ==
    IF n > Len(row2) THEN mergedRow
    ELSE Overlay_EmptyString(
            IF row2[n].val # Undefined /\ row2[n].val # Null
            THEN Put(mergedRow, row2[n].col, row2[n].val)
            ELSE mergedRow,
            row2, n + 1)

\* Object.keys(row2).forEach(col => { if (...) mergedRow[col] = row2[col] })
RECURSIVE Overlay(_, _, _)
Overlay(mergedRow, row2, n) ==
    IF n > Len(row2) THEN mergedRow
    ELSE Overlay(IF NonEmpty(row2[n].val)
                 THEN Put(mergedRow, row2[n].col, row2[n].val)
                 ELSE mergedRow,
                 row2, n + 1)

\* mutant: a table1 row without a match is not pushed
RECURSIVE MergeTable1_DropUnmatched(_, _, _, _, _, _)
MergeTable1_DropUnmatched(t1, t2, key, m, i, acc) ==
    IF i > Len(t1) THEN acc
    ELSE LET row1 == t1[i]
             j    == MapGet(m, Get(row1, key))
         IN  MergeTable1_DropUnmatched(t1, t2, key, m, i + 1,
                IF j # 0
                THEN [rows |-> Append(acc.rows,
                                  [row |-> Overlay(row1, t2[j], 1),
                                   src1 |-> i, src2 |-> j]),
                      usedKeys |-> acc.usedKeys \cup {Get(row1, key)}]
                ELSE acc)

\* 1. table1.forEach(row1 => ...): the rows pushed, each with the index of
\* the table1 row and of the table2 row it was built from, and usedKeys
RECURSIVE MergeTable1(_, _, _, _, _, _)
MergeTable1(t1, t2, key, m, i, acc) ==
    IF i > Len(t1) THEN acc
    ELSE LET row1 == t1[i]
             j    == MapGet(m, Get(row1, key))
         IN  MergeTable1(t1, t2, key, m, i + 1,
                IF j # 0
                THEN [rows |-> Append(acc.rows,
                                  [row |-> Overlay(row1, t2[j], 1),
                                   src1 |-> i, src2 |-> j]),
                      usedKeys |-> acc.usedKeys \cup {Get(row1, key)}]
                ELSE [rows |-> Append(acc.rows,
                                  [row |-> row1, src1 |-> i, src2 |-> 0]),
                      usedKeys |-> acc.usedKeys])

\* mutant: a table2 row without a key value is always appended
RECURSIVE AppendTable2_KeepsKeyless(_, _, _, _, _)
AppendTable2_KeepsKeyless(t2, key, usedKeys, j, rows) ==
    IF j > Len(t2) THEN rows
    ELSE AppendTable2_KeepsKeyless(t2, key, usedKeys, j + 1,
            IF Get(t2[j], key) \notin usedKeys \/ Get(t2[j], key) = Undefined
            THEN Append(rows, [row |-> t2[j], src1 |-> 0, src2 |-> j])
            ELSE rows)

\* mutant: every table2 row is appended, used or not
RECURSIVE AppendTable2_All(_, _, _, _, _)
AppendTable2_All(t2, key, usedKeys, j, rows) ==
    IF j > Len(t2) THEN rows
    ELSE AppendTable2_All(t2, key, usedKeys, j + 1,
            Append(rows, [row |-> t2[j], src1 |-> 0, src2 |-> j]))

\* 2. table2.forEach(row2 => { if (!usedKeys.has(row2[key])) merged.push })
RECURSIVE AppendTable2(_, _, _, _, _)
AppendTable2(t2, key, usedKeys, j, rows) ==
    IF j > Len(t2) THEN rows
    ELSE AppendTable2(t2, key, usedKeys, j + 1,
            IF Get(t2[j], key) \notin usedKeys
            THEN Append(rows, [row |-> t2[j], src1 |-> 0, src2 |-> j])
            ELSE rows)

\* the body of handleMerge past its two guards
MergeRows(t1, t2, mKey) ==
    LET key   == toLowerCase(mKey)
        m     == Table2Map(t2, key, 1, <<>>)
        first == MergeTable1(t1, t2, key, m, 1,
                             [rows |-> <<>>, usedKeys |-> {}])
    IN  AppendTable2(t2, key, first.usedKeys, 1, first.rows)

\* handleMerge: the alert it raises and, without one, the merged rows
handleMerge(t1, t2, mKey) ==
    IF mKey = <<>> THEN [alert |-> "noMergeKey", rows |-> <<>>]
    ELSE IF Len(t1) = 0 \/ Len(t2) = 0
         THEN [alert |-> "emptyTable", rows |-> <<>>]
    ELSE [alert |-> "none", rows |-> MergeRows(t1, t2, mKey)]

-----------------------------------------------------------------------------
(* renderTable: the columns shown and the highlight of a merged cell *)

RECURSIVE AddAll(_, _)
AddAll(cols, names) ==
    IF names = <<>> THEN cols
    ELSE AddAll(IF \E n \in 1..Len(cols) : cols[n] = toLowerCase(Head(names))
                THEN cols
                ELSE Append(cols, toLowerCase(Head(names))),
                Tail(names))

\* getAllColumns(data): the lower-cased column names in first-seen order
RECURSIVE getAllColumns(_)
getAllColumns(data) ==
    IF data = <<>> THEN <<>>
    ELSE LET rest == getAllColumns(SubSeq(data, 1, Len(data) - 1))
         IN  AddAll(rest, Keys(data[Len(data)]))

\* table.find(r => r[key] === row[key]): the index of the first such row, 0
\* for undefined
Find(t, key, row) ==
    IF \E n \in 1..Len(t) : StrictEq(Get(t[n], key), Get(row, key))
    THEN CHOOSE n \in 1..Len(t) :
            /\ StrictEq(Get(t[n], key), Get(row, key))
            /\ \A p \in 1..(n - 1) : ~StrictEq(Get(t[p], key), Get(row, key))
    ELSE 0

\* mutant: in a wholly new row only the cells that hold a value are Added
Highlight_NewRowByCell(t1, t2, mKey, row, col) ==
    IF mKey # <<>> /\ Len(t1) > 0 /\ Len(t2) > 0
    THEN LET key == toLowerCase(mKey)
             i1  == Find(t1, key, row)
             i2  == Find(t2, key, row)
         IN  IF i1 = 0 /\ i2 # 0 THEN (IF Get(row, col) # Undefined THEN "Added"
                                       ELSE "Unchanged")
             ELSE IF i1 # 0 /\ i2 # 0
             THEN LET v1 == Get(t1[i1], col)
                      v2 == Get(t2[i2], col)
                  IN  IF v1 = Undefined /\ v2 # Undefined THEN "Added"
                      ELSE IF /\ v1 # Undefined
                              /\ v2 # Undefined
                              /\ v2 # Null
                              /\ v2 # Str(<<>>)
                              /\ ~StrictEq(v1, v2)
                      THEN "Revised"
                      ELSE "Unchanged"
             ELSE "Unchanged"
    ELSE "Unchanged"

\* mutant: an empty table2 value against a table1 value is Revised
Highlight_EmptyRevises(t1, t2, mKey, row, col) ==
    IF mKey # <<>> /\ Len(t1) > 0 /\ Len(t2) > 0
    THEN LET key == toLowerCase(mKey)
             i1  == Find(t1, key, row)
             i2  == Find(t2, key, row)
         IN  IF i1 = 0 /\ i2 # 0 THEN "Added"
             ELSE IF i1 # 0 /\ i2 # 0
             THEN LET v1 == Get(t1[i1], col)
                      v2 == Get(t2[i2], col)
                  IN  IF v1 = Undefined /\ v2 # Undefined THEN "Added"
                      ELSE IF /\ v1 # Undefined
                              /\ v2 # Undefined
                              /\ ~StrictEq(v1, v2)
                      THEN "Revised"
                      ELSE "Unchanged"
             ELSE "Unchanged"
    ELSE "Unchanged"

\* mutant: Revised without comparing the two values
Highlight_NoCompare(t1, t2, mKey, row, col) ==
    IF mKey # <<>> /\ Len(t1) > 0 /\ Len(t2) > 0
    THEN LET key == toLowerCase(mKey)
             i1  == Find(t1, key, row)
             i2  == Find(t2, key, row)
         IN  IF i1 = 0 /\ i2 # 0 THEN "Added"
             ELSE IF i1 # 0 /\ i2 # 0
             THEN LET v1 == Get(t1[i1], col)
                      v2 == Get(t2[i2], col)
                  IN  IF v1 = Undefined /\ v2 # Undefined THEN "Added"
                      ELSE IF /\ v1 # Undefined
                              /\ v2 # Undefined
                              /\ v2 # Null
                              /\ v2 # Str(<<>>)
                      THEN "Revised"
                      ELSE "Unchanged"
             ELSE "Unchanged"
    ELSE "Unchanged"

\* the highlight of cell (row, col) of the merged table: "Added" is
\* bg-green-200, "Revised" is bg-yellow-200, "Unchanged" is no highlight
Highlight(t1, t2, mKey, row, col) ==
    IF mKey # <<>> /\ Len(t1) > 0 /\ Len(t2) > 0
    THEN LET key == toLowerCase(mKey)
             i1  == Find(t1, key, row)
             i2  == Find(t2, key, row)
         IN  IF i1 = 0 /\ i2 # 0 THEN "Added"
             ELSE IF i1 # 0 /\ i2 # 0
             THEN LET v1 == Get(t1[i1], col)
                      v2 == Get(t2[i2], col)
                  IN  IF v1 = Undefined /\ v2 # Undefined THEN "Added"
                      ELSE IF /\ v1 # Undefined
                              /\ v2 # Undefined
                              /\ v2 # Null
                              /\ v2 # Str(<<>>)
                              /\ ~StrictEq(v1, v2)
                      THEN "Revised"
                      ELSE "Unchanged"
             ELSE "Unchanged"
    ELSE "Unchanged"

-----------------------------------------------------------------------------
(* Inline editing *)

\* handleCellChange: next = [...prev]; next[rowIdx] = {...next[rowIdx],
\* [col]: value}
handleCellChange(prev, rowIdx, col, value) ==
    [n \in 1..Len(prev) |->
        IF n = rowIdx THEN Put(prev[n], col, Str(value)) ELSE prev[n]]

\* mutant: a column already written to newRow is not written again
RECURSIVE RenameKeys_KeepsFirst(_, _, _, _, _)
RenameKeys_KeepsFirst(row, oldCol, newCol, n, newRow) ==
    IF n > Len(row) THEN newRow
    ELSE RenameKeys_KeepsFirst(row, oldCol, newCol, n + 1,
            LET k == IF row[n].col = oldCol THEN newCol ELSE row[n].col
            IN  IF Has(newRow, k) THEN newRow
                ELSE Put(newRow, k, row[n].val))

\* Object.keys(row).forEach(k => { if (k === oldCol) newRow[newCol] = row[k]
\* else newRow[k] = row[k] })
RECURSIVE RenameKeys(_, _, _, _, _)
RenameKeys(row, oldCol, newCol, n, newRow) ==
    IF n > Len(row) THEN newRow
    ELSE RenameKeys(row, oldCol, newCol, n + 1,
                    Put(newRow,
                        IF row[n].col = oldCol THEN newCol ELSE row[n].col,
                        row[n].val))

\* handleHeaderChange: whether a setter is called and the table it yields
handleHeaderChange(prev, oldCol, newCol) ==
    IF newCol = <<>> \/ oldCol = newCol
    THEN [set |-> FALSE, data |-> prev]
    ELSE [set |-> TRUE,
          data |-> [n \in 1..Len(prev) |->
                      RenameKeys(prev[n], oldCol, newCol, 1, <<>>)]]

-----------------------------------------------------------------------------
(* The component as a state machine *)

Op(name, target, alert, src) ==
    [name |-> name, target |-> target, alert |-> alert, src |-> src]

NoFile == [ext |-> "none", text |-> <<>>, sheet |-> <<>>, cell |-> <<>>]

\* the state after construction: useState([]), useState('')
Init ==
    /\ table1 = <<>>
    /\ table2 = <<>>
    /\ mergedTable = <<>>
    /\ mergeKey = <<>>
    /\ table = <<>>
    /\ payload = NoFile
    /\ op = Op("init", 0, "none", <<>>)
    /\ edits = 0

\* setTable1 / setTable2 with the outcome r of an ingestion into table t;
\* replacing table2 runs the effect that resets the merge key
SetTable(t, r) ==
    /\ table1' = IF t = 1 /\ r.set THEN r.data ELSE table1
    /\ table2' = IF t = 2 /\ r.set THEN r.data ELSE table2
    /\ mergeKey' = IF t = 2 /\ r.set THEN EffectKey(r.data, mergeKey)
                   ELSE mergeKey

\* <Input type="file" onChange={e => handleFile(e, setTable1 / setTable2)}>,
\* r the outcome of reader.onload on the file chosen
HandleFile(t, r) ==
    /\ SetTable(t, r)
    /\ op' = Op("handleFile", t, r.alert, <<>>)
    /\ UNCHANGED <<mergedTable, table, payload, edits>>

\* the paste panel's apply button: handlePaste(pasteText, setTable), r the
\* outcome on the text pasted
HandlePaste(t, r) ==
    /\ SetTable(t, r)
    /\ op' = Op("handlePaste", t, r.alert, <<>>)
    /\ UNCHANGED <<mergedTable, table, payload, edits>>

\* <Input id="mergeKey" onChange={e => setMergeKey(e.target.value)}>
SetMergeKey(k) ==
    /\ mergeKey' = k
    /\ op' = Op("setMergeKey", 0, "none", <<>>)
    /\ UNCHANGED <<table1, table2, mergedTable, table, payload, edits>>

\* mutant: a failed merge clears the merged table
HandleMerge_ClearsOnFailure ==
    LET r == handleMerge(table1, table2, mergeKey)
    IN  /\ mergedTable' = [n \in 1..Len(r.rows) |-> r.rows[n].row]
        /\ op' = Op("handleMerge", 0, r.alert,
                    [n \in 1..Len(r.rows) |->
                        [src1 |-> r.rows[n].src1, src2 |-> r.rows[n].src2]])
        /\ UNCHANGED <<table1, table2, mergeKey, table, payload, edits>>

\* the merge button
HandleMerge ==
    LET r == handleMerge(table1, table2, mergeKey)
    IN  /\ mergedTable' = IF r.alert = "none"
                          THEN [n \in 1..Len(r.rows) |-> r.rows[n].row]
                          ELSE mergedTable
        /\ op' = Op("handleMerge", 0, r.alert,
                    [n \in 1..Len(r.rows) |->
                        [src1 |-> r.rows[n].src1, src2 |-> r.rows[n].src2]])
        /\ UNCHANGED <<table1, table2, mergeKey, table, payload, edits>>

\* the reset button: onClick={() => setMergedTable([])}
ResetMerged ==
    /\ mergedTable' = <<>>
    /\ op' = Op("reset", 0, "none", <<>>)
    /\ UNCHANGED <<table1, table2, mergeKey, table, payload, edits>>

\* the table rendered under tableType t: 1 is 'table1', 2 is 'table2' and
\* 4 is 'merged'
TableOf(t) ==
    CASE t = 1 -> table1 [] t = 2 -> table2 [] OTHER -> mergedTable

\* the columns renderTable shows for table t
ColsOf(t) ==
    { getAllColumns(TableOf(t))[x] : x \in 1..Len(getAllColumns(TableOf(t))) }

\* the setter of table t called with data; replacing table2 runs the effect
\* that resets the merge key
SetEdited(t, r) ==
    /\ table1' = IF t = 1 /\ r.set THEN r.data ELSE table1
    /\ table2' = IF t = 2 /\ r.set THEN r.data ELSE table2
    /\ mergedTable' = IF t = 4 /\ r.set THEN r.data ELSE mergedTable
    /\ mergeKey' = IF t = 2 /\ r.set THEN EffectKey(r.data, mergeKey)
                   ELSE mergeKey

\* mutant: the rows of the merged table are the row objects of table1, and
\* the edit writes into the row it is given
HandleCellChange_InPlace(t, rowIdx, col, value) ==
    /\ edits < MaxEdits
    /\ rowIdx \in 1..Len(TableOf(t)) /\ col \in ColsOf(t)
    /\ table1' = IF t = 1 \/ (t = 4 /\ rowIdx <= Len(table1))
                 THEN handleCellChange(table1, rowIdx, col, value)
                 ELSE table1
    /\ table2' = IF t = 2
                 THEN handleCellChange(table2, rowIdx, col, value)
                 ELSE table2
    /\ mergedTable' = IF t = 4 \/ (t = 1 /\ rowIdx <= Len(mergedTable))
                      THEN handleCellChange(mergedTable, rowIdx, col, value)
                      ELSE mergedTable
    /\ mergeKey' = IF t = 2 THEN EffectKey(table2', mergeKey) ELSE mergeKey
    /\ op' = Op("handleCellChange", t, "none", <<>>)
    /\ edits' = edits + 1
    /\ UNCHANGED <<table, payload>>

\* the cell editor of table t: Enter or blur with the value typed calls
\* handleCellChange(tableType, i, col, editingValue)
HandleCellChange(t, rowIdx, col, value) ==
    /\ edits < MaxEdits
    /\ rowIdx \in 1..Len(TableOf(t)) /\ col \in ColsOf(t)
    /\ SetEdited(t, [set |-> TRUE,
                     data |-> handleCellChange(TableOf(t), rowIdx, col, value)])
    /\ op' = Op("handleCellChange", t, "none", <<>>)
    /\ edits' = edits + 1
    /\ UNCHANGED <<table, payload>>

\* the cell clicked: setEditingValue(String(cellValue ?? ''))
EditingValue(row, col) ==
    IF Get(row, col) \in {Undefined, Null} THEN <<>>
    ELSE String(Get(row, col))

\* a cell of table t clicked and committed (Enter or blur) with the text the
\* editor opened with
HandleCellCommit(t, rowIdx, col) ==
    /\ rowIdx \in 1..Len(TableOf(t))
    /\ HandleCellChange(t, rowIdx, col,
                        EditingValue(TableOf(t)[rowIdx], col))

\* a cell of table t clicked and left with Escape: setEditingCell(null)
HandleCellEscape(t) ==
    /\ edits < MaxEdits
    /\ Len(TableOf(t)) > 0
    /\ op' = Op("cancelEdit", t, "none", <<>>)
    /\ edits' = edits + 1
    /\ UNCHANGED <<table1, table2, mergedTable, mergeKey, table, payload>>

\* mutant: the header typed is taken as it is
HandleHeaderChange_Raw(t, col, value) ==
    /\ edits < MaxEdits
    /\ Len(TableOf(t)) > 0 /\ col \in ColsOf(t)
    /\ SetEdited(t, handleHeaderChange(TableOf(t), col, value))
    /\ op' = Op("handleHeaderChange", t, "none", <<>>)
    /\ edits' = edits + 1
    /\ UNCHANGED <<table, payload>>

\* the header editor of table t: Enter or blur with the value typed calls
\* handleHeaderChange(tableType, col, editingHeaderValue.toLowerCase())
HandleHeaderChange(t, col, value) ==
    /\ edits < MaxEdits
    /\ Len(TableOf(t)) > 0 /\ col \in ColsOf(t)
    /\ SetEdited(t, handleHeaderChange(TableOf(t), col, toLowerCase(value)))
    /\ op' = Op("handleHeaderChange", t, "none", <<>>)
    /\ edits' = edits + 1
    /\ UNCHANGED <<table, payload>>

\* App: the Table Loader's file input
AppHandleFile(r) ==
    /\ table' = IF r.set THEN r.data ELSE table
    /\ op' = Op("AppHandleFile", 3, r.alert, <<>>)
    /\ UNCHANGED <<table1, table2, mergedTable, mergeKey, payload, edits>>

\* App: the Table Loader's paste button
AppHandlePaste(r) ==
    /\ table' = IF r.set THEN r.data ELSE table
    /\ op' = Op("AppHandlePaste", 3, r.alert, <<>>)
    /\ UNCHANGED <<table1, table2, mergedTable, mergeKey, payload, edits>>

-----------------------------------------------------------------------------
(* The inputs of the component specification *)

File(ext, text) == [ext |-> ext, text |-> text, sheet |-> <<>>, cell |-> <<>>]
Sheet(rows) == [ext |-> "xlsx", text |-> <<>>, sheet |-> rows, cell |-> <<>>]

\* k,v / 1,x / 2,
CsvText1 == <<"k", ",", "v", NL, "1", ",", "x", NL, "2", ",">>
\* [k,v / 1,x  (starts like JSON and is none)
BrokenJSON == <<"[", "k", ",", "v", NL, "1", ",", "x">>
\* k <tab> w / 1 <tab> a
TabText == <<"k", TAB, "w", NL, "1", TAB, "a">>

\* [{"K":1,"v":"x"}]
JsonRows1 ==
    JArray(<<JObject(<<Prop(<<"K">>, IntNum(1)), Prop(V, Str(<<"x">>))>>)>>)
\* [{"k":1,"v":""},{"k":2,"w":null}]
JsonRows2 ==
    JArray(<<JObject(<<Prop(K, IntNum(1)), Prop(V, Str(<<>>))>>),
             JObject(<<Prop(K, IntNum(2)), Prop(W, Null)>>)>>)

Files ==
    { File("json", JSONText(JsonRows1)),
      File("json", JSONText(JsonRows2)),
      File("json", JSONText(JArray(<<JScalar(Null)>>))),
      File("json", BrokenJSON),
      File("csv", CsvText1),
      File("txt", CsvText1),
      Sheet(<<<<Prop(<<"K">>, Str(<<"1">>)), Prop(V, Str(<<>>))>>>>) }

PasteTexts == { JSONText(JsonRows1), BrokenJSON, TabText, <<"k">> }

KeyInputs == { <<>>, <<"K">>, V }

\* the outcome of each input, computed once
FileOutcome == [file \in Files |-> handleFile(file)]
PasteOutcome == [text \in PasteTexts |-> handlePaste(text)]

Next ==
    \/ \E t \in {1, 2} : \E file \in Files : HandleFile(t, FileOutcome[file])
    \/ \E t \in {1, 2} : \E text \in PasteTexts :
          HandlePaste(t, PasteOutcome[text])
    \/ \E k \in KeyInputs : SetMergeKey(k)
    \/ HandleMerge
    \/ ResetMerged

Spec == Init /\ [][Next]_vars

-----------------------------------------------------------------------------
(* The merge specification: handleMerge and the highlight over every pair   *)
(* of tables of at most MaxRows rows in all                                *)

\* the key column k holds 1, '1' or is missing; the column v holds '', '1',
\* 1, null or is missing
KValues == { Undefined, IntNum(1), Str(<<"1">>) }
VValues == { Undefined, Str(<<>>), Str(<<"1">>), IntNum(1), Null }

\* a row of the columns k and v, a column left out where the value drawn
\* for it is undefined
RowOf(kv, vv) ==
    (IF kv = Undefined THEN <<>> ELSE <<Prop(K, kv)>>)
    \o (IF vv = Undefined THEN <<>> ELSE <<Prop(V, vv)>>)

Rows == { RowOf(kv, vv) : kv \in KValues, vv \in VValues }

RECURSIVE TablesOfLen(_)
TablesOfLen(n) ==
    IF n = 0 THEN { <<>> }
    ELSE { Append(t, r) : t \in TablesOfLen(n - 1), r \in Rows }

MergeKeys == { <<>>, <<"K">>, V }

MergeInit ==
    /\ \E n1 \in 0..MaxRows : \E n2 \in 0..(MaxRows - n1) :
          /\ table1 \in TablesOfLen(n1)
          /\ table2 \in TablesOfLen(n2)
    /\ mergeKey \in MergeKeys
    /\ mergedTable = <<>>
    /\ table = <<>>
    /\ payload = NoFile
    /\ op = Op("init", 0, "none", <<>>)
    /\ edits = 0

MergeNext == HandleMerge \/ ResetMerged

MergeSpec == MergeInit /\ [][MergeNext]_vars

-----------------------------------------------------------------------------
(* The editing specification: loads, pastes, merges and inline edits        *)

\* {"K":1,"v":"x"} as a JSON file
EditFiles == { File("json", JSONText(JsonRows1)) }
\* k <tab> w / 1 <tab> a
EditPastes == { TabText }
EditKeys == { <<"K">> }
\* the columns whose cells and headers are clicked
EditCols == { K, V, W }
\* the value typed into a cell
EditValues == { <<"e">> }
\* the header typed: a new name, an existing one, nothing
HeaderValues == { <<"W">>, <<"K">>, <<>> }

EditFileOutcome == [file \in EditFiles |-> handleFile(file)]
EditPasteOutcome == [text \in EditPastes |-> handlePaste(text)]

EditNext ==
    \/ \E t \in {1, 2} : \E file \in EditFiles :
          HandleFile(t, EditFileOutcome[file])
    \/ \E t \in {1, 2} : \E text \in EditPastes :
          HandlePaste(t, EditPasteOutcome[text])
    \/ \E k \in EditKeys : SetMergeKey(k)
    \/ HandleMerge
    \/ \E t \in {1, 2, 4} : \E rowIdx \in 1..MaxRows :
          \E col \in EditCols : \E value \in EditValues :
             HandleCellChange(t, rowIdx, col, value)
    \/ \E t \in {1, 2, 4} : \E col \in EditCols : \E value \in HeaderValues :
          HandleHeaderChange(t, col, value)
    \/ \E t \in {1, 2, 4} : \E rowIdx \in 1..MaxRows : \E col \in EditCols :
          HandleCellCommit(t, rowIdx, col)
    \/ \E t \in {1, 2, 4} : HandleCellEscape(t)

EditSpec == Init /\ [][EditNext]_vars

-----------------------------------------------------------------------------
(* The parser specification: one payload, ingested through each path        *)

CellChars == { "1", "a", " ", ".", "-", "e" }

RECURSIVE CellsOfLen(_)
CellsOfLen(n) ==
    IF n = 0 THEN { <<>> }
    ELSE { Append(c, ch) : c \in CellsOfLen(n - 1), ch \in CellChars }

Cells == UNION { CellsOfLen(n) : n \in 0..MaxCellLen }

\* a delimited text whose first data line holds the cell under column k
Delim(text, cell) ==
    [ext |-> "csv", text |-> text, sheet |-> <<>>, cell |-> cell]

\* a header of two columns, a line of one field and a line of three
RaggedText(c) ==
    <<"k", ",", "v", NL>> \o c \o <<NL, "1", ",", "a", ",", "1">>

DelimitedPayloads ==
    UNION { { \* K / cell
              Delim(<<"K", NL>> \o c, c),
              \* k, v / cell,1
              Delim(<<"k", ",", " ", "v", NL>> \o c \o <<",", "1">>, c),
              \* k <tab> v / cell <tab> a / 1
              Delim(<<"k", TAB, "v", NL>> \o c \o <<TAB, "a", NL, "1">>, c),
              \* k,v / cell / 1,a,1
              Delim(RaggedText(c), c)
            } : c \in Cells }

ParsePayloads ==
    DelimitedPayloads
    \cup { File("json", JSONText(j)) : j \in JSONValues }
    \cup { File("json", BrokenJSON), File("txt", CsvText1),
           Sheet(<<<<Prop(<<"K">>, IntNum(1)), Prop(V, Str(<<>>))>>>>) }

ParseInit ==
    /\ table1 = <<>>
    /\ table2 = <<>>
    /\ mergedTable = <<>>
    /\ mergeKey = <<>>
    /\ table = <<>>
    /\ payload \in ParsePayloads
    /\ op = Op("init", 0, "none", <<>>)
    /\ edits = 0

\* the payload chosen as a file of the Main Table, pasted into the
\* Additional Table, and chosen / pasted in the Table Loader
ParseNext ==
    \/ HandleFile(1, handleFile(payload))
    \/ HandlePaste(2, handlePaste(payload.text))
    \/ AppHandleFile(appHandleFile(payload))
    \/ AppHandlePaste(appHandlePaste(payload.text))

ParseSpec == ParseInit /\ [][ParseNext]_vars

-----------------------------------------------------------------------------
(* Properties of handleMerge, under MergeSpec *)

\* mergedTable is the result of handleMerge on the tables and key now held
Merged == op.name = "handleMerge" /\ op.alert = "none"

\* '', null or absent (undefined)
IsEmptyValue(v) == v \in {Undefined, Null, Str(<<>>)}

KeyCol == toLowerCase(mergeKey)
KeyOf(row) == Get(row, KeyCol)

\* the merged rows that table2 row j went into
UsesOf(j) == { n \in 1..Len(op.src) : op.src[n].src2 = j }

\* table2 row j is in merged row n by value: appended unchanged, or its
\* non-empty values overlaid
Carries(n, j) ==
    IF op.src[n].src1 = 0
    THEN mergedTable[n] = table2[j]
    ELSE \A c \in 1..Len(table2[j]) :
            ~IsEmptyValue(table2[j][c].val)
            => Get(mergedTable[n], table2[j][c].col) = table2[j][c].val

DistinctKeys(t) ==
    \A a, b \in 1..Len(t) : a # b => KeyOf(t[a]) # KeyOf(t[b])

\* C1 as claimed: after a merge every table2 row is accounted for exactly
\* once in the merged table (overlaid onto one table1-derived row or
\* appended as one standalone row), whatever the inputs.
C1_EveryRowExactlyOnce ==
    Merged => \A j \in 1..Len(table2) :
                /\ Cardinality(UsesOf(j)) = 1
                /\ \A n \in UsesOf(j) : Carries(n, j)

\* C1 amended: when no two rows of table1 share a key value and no two rows
\* of table2 share a key value (a missing key column counting as the value
\* undefined), every table2 row is accounted for exactly once in the merged
\* table: overlaid onto exactly one table1-derived row or appended, by value,
\* as exactly one standalone row.
C1_ExactlyOnceWhenKeysDistinct ==
    (Merged /\ DistinctKeys(table1) /\ DistinctKeys(table2))
    => \A j \in 1..Len(table2) :
          /\ Cardinality(UsesOf(j)) = 1
          /\ \A n \in UsesOf(j) : Carries(n, j)

\* a merge with distinct keys in which one table2 row was overlaid and
\* another appended
C1_Witness ==
    /\ Merged /\ DistinctKeys(table1) /\ DistinctKeys(table2)
    /\ \E n \in 1..Len(op.src) : op.src[n].src1 # 0 /\ op.src[n].src2 # 0
    /\ \E n \in 1..Len(op.src) : op.src[n].src1 = 0

\* the table2 rows whose key value is the key value of no table1 row
Unmatched ==
    LET NoRow1(row2) == \A i \in 1..Len(table1) : KeyOf(table1[i]) # KeyOf(row2)
    IN  SelectSeq(table2, NoRow1)

\* C2: after a merge the merged table has at least len(table1) rows, merged
\* row i (i <= len(table1)) holds every column of table1 row i and its key
\* value, and the rows after them are exactly the table2 rows whose key value
\* matches no table1 row, unchanged and in table2's order.
C2_OrderPreservation ==
    Merged =>
      /\ Len(mergedTable) >= Len(table1)
      /\ \A i \in 1..Len(table1) :
            /\ \A c \in 1..Len(table1[i]) :
                  Has(mergedTable[i], table1[i][c].col)
            /\ KeyOf(mergedTable[i]) = KeyOf(table1[i])
            /\ op.src[i].src1 = i
      /\ SubSeq(mergedTable, Len(table1) + 1, Len(mergedTable)) = Unmatched

\* a merge that kept an unmatched table1 row and appended two different
\* table2 rows after it
C2_Witness ==
    /\ Merged /\ Len(table1) = 1 /\ Len(mergedTable) = 3
    /\ Len(table1[1]) = 2
    /\ mergedTable[2] # mergedTable[3]

\* C3: in a merged row built from a table1 row and its matched table2 row,
\* every column the table1 row has and for which the table2 row's value is
\* '', null or absent keeps exactly the table1 value.
C3_NoRegression ==
    Merged => \A n \in 1..Len(op.src) :
        (op.src[n].src1 # 0 /\ op.src[n].src2 # 0) =>
            LET row1 == table1[op.src[n].src1]
                row2 == table2[op.src[n].src2]
            IN  \A c \in 1..Len(row1) :
                    IsEmptyValue(Get(row2, row1[c].col))
                    => Get(mergedTable[n], row1[c].col) = row1[c].val

\* a matched pair in which table1 holds a value and table2 the empty string
C3_Witness ==
    /\ Merged
    /\ \E n \in 1..Len(op.src) :
          /\ op.src[n].src1 # 0 /\ op.src[n].src2 # 0
          /\ Get(table1[op.src[n].src1], V) = IntNum(1)
          /\ Get(table2[op.src[n].src2], V) = Str(<<>>)
          /\ KeyCol = K

\* the last row of table2 with the key value of row1, 0 when there is none
LastWithKey(row1) ==
    IF \E j \in 1..Len(table2) : KeyOf(table2[j]) = KeyOf(row1)
    THEN CHOOSE j \in 1..Len(table2) :
            /\ KeyOf(table2[j]) = KeyOf(row1)
            /\ \A p \in (j + 1)..Len(table2) : KeyOf(table2[p]) # KeyOf(row1)
    ELSE 0

\* C4: when several table2 rows have the key value of a table1 row, the row
\* overlaid onto it is the last of them in table2's order: the merged row
\* holds every non-empty value of that last row.
C4_LastWriteWins ==
    Merged => \A i \in 1..Len(table1) :
        LastWithKey(table1[i]) # 0 =>
            LET last == table2[LastWithKey(table1[i])]
            IN  /\ op.src[i].src2 = LastWithKey(table1[i])
                /\ \A c \in 1..Len(last) :
                      ~IsEmptyValue(last[c].val)
                      => Get(mergedTable[i], last[c].col) = last[c].val

\* table1 = [{k:1}], table2 = [{k:1,v:'1'},{k:1,v:1}] merged on k: v = 1
C4_Witness ==
    /\ Merged /\ KeyCol = K
    /\ Len(table1) = 1 /\ Len(table2) = 2
    /\ KeyOf(table1[1]) = IntNum(1)
    /\ KeyOf(table2[1]) = IntNum(1) /\ KeyOf(table2[2]) = IntNum(1)
    /\ Get(table2[1], V) = Str(<<"1">>) /\ Get(table2[2], V) = IntNum(1)
    /\ Get(mergedTable[1], V) = IntNum(1)

-----------------------------------------------------------------------------
(* Properties of the highlight of the merged table, under MergeSpec *)

\* the columns renderTable shows for the merged table
MergedCols ==
    { getAllColumns(mergedTable)[x] : x \in 1..Len(getAllColumns(mergedTable)) }

\* the highlight of the cell of merged row n at column c
CellClass(n, c) == Highlight(table1, table2, mergeKey, mergedTable[n], c)

\* the rows the highlight consults for merged row n (0: none)
Match1(n) == Find(table1, KeyCol, mergedTable[n])
Match2(n) == Find(table2, KeyCol, mergedTable[n])

\* C7 as claimed: a cell is marked Revised only when the stringified,
\* trimmed values of the matched table1 row and the matched table2 row at
\* that column differ, so that the number 5 against the text '5' is never
\* marked.
C7_RevisedOnlyIfTrimmedStringsDiffer ==
    \A n \in 1..Len(mergedTable) : \A c \in MergedCols :
        CellClass(n, c) = "Revised" =>
            trim(String(Get(table1[Match1(n)], c)))
                # trim(String(Get(table2[Match2(n)], c)))

\* C7 amended: a cell is marked Revised only when the matched table1 row and
\* the matched table2 row both have a value at that column, the table2 value
\* is neither '' nor null, and the two values are not strictly equal: they
\* differ in type or, having the same type, in content. A number against
\* the text that prints the same is therefore marked Revised.
C7_RevisedOnlyIfStrictlyDifferent ==
    \A n \in 1..Len(mergedTable) : \A c \in MergedCols :
        CellClass(n, c) = "Revised" =>
            LET v1 == Get(table1[Match1(n)], c)
                v2 == Get(table2[Match2(n)], c)
            IN  /\ Match1(n) # 0 /\ Match2(n) # 0
                /\ v1.kind # "undefined"
                /\ ~IsEmptyValue(v2)
                /\ v1.kind # v2.kind \/ String(v1) # String(v2)

\* the number 1 of table1 against the text '1' of table2, marked Revised
\* after the merge
C7_Witness ==
    /\ Merged
    /\ \E n \in 1..Len(mergedTable) :
          /\ CellClass(n, V) = "Revised"
          /\ Get(table1[Match1(n)], V) = IntNum(1)
          /\ Get(table2[Match2(n)], V) = Str(<<"1">>)

\* C8: in a merged row that has both a table1 match and a table2 match, a
\* column is marked Added if and only if it is absent in the table1 match
\* and present with a non-empty value in the table2 match.
C8_AddedIffAbsentAndNonEmpty ==
    \A n \in 1..Len(mergedTable) : \A c \in MergedCols :
        (Merged /\ Match1(n) # 0 /\ Match2(n) # 0) =>
            (CellClass(n, c) = "Added"
             <=> /\ ~Has(table1[Match1(n)], c)
                 /\ Has(table2[Match2(n)], c)
                 /\ Get(table2[Match2(n)], c) # Str(<<>>))

-----------------------------------------------------------------------------
(* Further properties of handleMerge and the highlight, under MergeSpec *)

\* the column names of a row
ColSet(row) == { row[c].col : c \in 1..Len(row) }

\* the columns of a row that hold a non-empty value
FilledCols(row) ==
    { row[c].col : c \in { x \in 1..Len(row) : ~IsEmptyValue(row[x].val) } }

\* merged row n was built from a table1 row and a table2 row
Overlaid(n) == op.src[n].src1 # 0 /\ op.src[n].src2 # 0

\* C11 as claimed: the column set of a merged row built from a matched pair
\* is the union of both rows' columns, every non-empty table2 value is the
\* merged value, and a table1 row with no match is output unchanged.
C11_OverlayUnionOfColumns ==
    Merged => \A n \in 1..Len(op.src) :
        /\ Overlaid(n) =>
              LET row1 == table1[op.src[n].src1]
                  row2 == table2[op.src[n].src2]
              IN  /\ ColSet(mergedTable[n]) = ColSet(row1) \cup ColSet(row2)
                  /\ \A c \in FilledCols(row2) :
                        Get(mergedTable[n], c) = Get(row2, c)
        /\ (op.src[n].src1 # 0 /\ op.src[n].src2 = 0)
              => mergedTable[n] = table1[op.src[n].src1]

\* C11 amended: the column set of a merged row built from a matched pair is
\* the table1 row's columns together with the table2 row's columns that hold
\* a non-empty value (a column the table2 row holds only as '' or null, and
\* the table1 row lacks, is not in the merged row); every non-empty table2
\* value is the merged value; a table1 row with no match is output unchanged.
C11_OverlayOfNonEmptyColumns ==
    Merged => \A n \in 1..Len(op.src) :
        /\ Overlaid(n) =>
              LET row1 == table1[op.src[n].src1]
                  row2 == table2[op.src[n].src2]
              IN  /\ ColSet(mergedTable[n])
                        = ColSet(row1) \cup FilledCols(row2)
                  /\ \A c \in FilledCols(row2) :
                        Get(mergedTable[n], c) = Get(row2, c)
        /\ (op.src[n].src1 # 0 /\ op.src[n].src2 = 0)
              => mergedTable[n] = table1[op.src[n].src1]

\* table1 = [{k:1,v:'1'}], table2 = [{k:1,v:1},{k:'1',v:'1'}] merged on k:
\* [{k:1,v:1},{k:'1',v:'1'}], the scenario of the claim
C11_Witness ==
    /\ Merged /\ KeyCol = K /\ Len(mergedTable) = 2
    /\ Overlaid(1)
    /\ Get(table1[1], V) = Str(<<"1">>)
    /\ Get(table2[1], V) = IntNum(1)
    /\ Get(mergedTable[1], V) = IntNum(1)
    /\ mergedTable[2] = table2[2]

\* C12: for every row of the merged table the highlight consults the very
\* table2 row handleMerge overlaid or appended and the table1 row the
\* merged row was derived from, duplicate key values included.
C12_SameCorrespondence ==
    Merged => \A n \in 1..Len(mergedTable) :
        /\ Match1(n) = op.src[n].src1
        /\ Match2(n) = op.src[n].src2

\* C13: handleMerge overlays a table2 row onto a table1 row only when their
\* key values are of the same kind and equal; a table1 row whose key value
\* no table2 row has in the same kind is output as it is, and a table2 row
\* whose key value no table1 row has in the same kind is appended, so the
\* number 1 and the text '1' stay two rows.
C13_TypeExactMatch ==
    Merged =>
      /\ \A n \in 1..Len(op.src) :
            Overlaid(n) =>
              LET k1 == KeyOf(table1[op.src[n].src1])
                  k2 == KeyOf(table2[op.src[n].src2])
              IN  k1.kind = k2.kind /\ k1 = k2
      /\ \A i \in 1..Len(table1) :
            (\A j \in 1..Len(table2) :
                KeyOf(table2[j]).kind # KeyOf(table1[i]).kind)
            => mergedTable[i] = table1[i]
      /\ \A j \in 1..Len(table2) :
            (\A i \in 1..Len(table1) :
                KeyOf(table1[i]).kind # KeyOf(table2[j]).kind)
            => \E n \in (Len(table1) + 1)..Len(mergedTable) :
                  mergedTable[n] = table2[j] /\ op.src[n].src2 = j

\* the key 1 in table1 and the key '1' in table2: two merged rows
C13_Witness ==
    /\ Merged /\ KeyCol = K
    /\ Len(table1) = 1 /\ Len(table2) = 1 /\ Len(mergedTable) = 2
    /\ KeyOf(table1[1]) = IntNum(1)
    /\ KeyOf(table2[1]) = Str(<<"1">>)
    /\ Get(table1[1], V) = Str(<<"1">>)

\* the key value of merged row n is the key value of no row of t / of some
KeyIn(t, n) == \E i \in 1..Len(t) : KeyOf(t[i]) = KeyOf(mergedTable[n])

\* C14: for every merged row whose key value matches no table1 row but
\* matches a table2 row, every column shown is marked Added.
C14_NewRowsAllAdded ==
    Merged => \A n \in 1..Len(mergedTable) :
        (~KeyIn(table1, n) /\ KeyIn(table2, n))
        => \A c \in MergedCols : CellClass(n, c) = "Added"

\* an appended row that lacks the column v another merged row has
C14_Witness ==
    /\ Merged /\ KeyCol = K
    /\ \E n \in 1..Len(mergedTable) :
          /\ ~KeyIn(table1, n) /\ KeyIn(table2, n)
          /\ V \in MergedCols /\ ~Has(mergedTable[n], V)
          /\ CellClass(n, V) = "Added"

\* C15: for every merged row whose key value matches a table1 row and no
\* table2 row every column is Unchanged; and in a row with both matches a
\* column whose table2 value is empty ('', null or absent) while the table1
\* row holds a value is Unchanged.
C15_PrimaryOnlyUnchanged ==
    Merged => \A n \in 1..Len(mergedTable) : \A c \in MergedCols :
        /\ (KeyIn(table1, n) /\ ~KeyIn(table2, n))
              => CellClass(n, c) = "Unchanged"
        /\ (/\ KeyIn(table1, n) /\ KeyIn(table2, n)
            /\ Has(table1[Match1(n)], c)
            /\ IsEmptyValue(Get(table2[Match2(n)], c)))
              => CellClass(n, c) = "Unchanged"

\* table1 = [{k:1,v:1}, {k:'1',..}], table2 = [{k:1,v:''}] merged on k
C15_Witness ==
    /\ Merged /\ KeyCol = K
    /\ \E n \in 1..Len(mergedTable) :
          /\ KeyIn(table1, n) /\ KeyIn(table2, n)
          /\ Get(table1[Match1(n)], V) = IntNum(1)
          /\ Get(table2[Match2(n)], V) = Str(<<>>)
          /\ CellClass(n, V) = "Unchanged"
    /\ \E n \in 1..Len(mergedTable) :
          KeyIn(table1, n) /\ ~KeyIn(table2, n)

\* the rows of t that have no entry for the key column
Keyless(t) == { j \in 1..Len(t) : ~Has(t[j], KeyCol) }

\* the greatest element of a non-empty set of numbers
Last(S) == CHOOSE j \in S : \A p \in S : p <= j

\* C20: a table1 row that has no entry for the merge key column is overlaid
\* with the last table2 row that has none either, and when that happens no
\* table2 row lacking the key column is appended.
C20_KeylessRowsShareOneKey ==
    (Merged /\ Keyless(table1) # {} /\ Keyless(table2) # {}) =>
        /\ \A i \in Keyless(table1) :
              /\ op.src[i] = [src1 |-> i, src2 |-> Last(Keyless(table2))]
              /\ \A c \in FilledCols(table2[Last(Keyless(table2))]) :
                    Get(mergedTable[i], c)
                        = Get(table2[Last(Keyless(table2))], c)
        /\ \A n \in 1..Len(op.src) :
              op.src[n].src1 = 0 => op.src[n].src2 \notin Keyless(table2)

\* table1 = [{v:'1'}], table2 = [{v:1},{}] merged on k: the last keyless
\* row {} is overlaid, {v:1} is dropped and the merged table is [{v:'1'}]
C20_Witness ==
    /\ Merged /\ KeyCol = K
    /\ Len(table1) = 1 /\ Len(table2) = 2
    /\ Keyless(table1) = {1} /\ Keyless(table2) = {1, 2}
    /\ Get(table2[1], V) = IntNum(1) /\ table2[2] = <<>>
    /\ mergedTable = table1

-----------------------------------------------------------------------------
(* Failures, under Spec *)

\* C5: handleMerge invoked with an empty merge key, with table1 empty or
\* with table2 empty raises an alert and leaves table1, table2, the merge
\* key and the merged table held before as they were.
C5_FailedMergeChangesNothing ==
    [][ (op'.name = "handleMerge"
         /\ (mergeKey = <<>> \/ Len(table1) = 0 \/ Len(table2) = 0))
        => /\ op'.alert # "none"
           /\ table1' = table1 /\ table2' = table2
           /\ mergeKey' = mergeKey /\ mergedTable' = mergedTable ]_vars

\* a failed merge while a merged table is held
C5_Witness ==
    /\ op.name = "handleMerge" /\ op.alert # "none"
    /\ mergedTable # <<>>

\* C6: a file load or paste that fails (it raises an alert) leaves the
\* table held before the attempt unchanged.
C6_FailedIngestionChangesNothing ==
    [][ (op'.name \in {"handleFile", "handlePaste"} /\ op'.alert # "none")
        => (table1' = table1 /\ table2' = table2) ]_vars

-----------------------------------------------------------------------------
(* Properties of ingestion, under ParseSpec *)

\* the payload is one of the delimited texts, and table t holds the cell
\* of its first data line under column k
HoldsCell(t) ==
    payload \in DelimitedPayloads /\ Len(t) >= 1 /\ Has(t[1], K)

\* an optionally signed integer or decimal: [+-]? digits (. digits)?
IsSignedDecimal(s) ==
    LET body == SignOf(s)[2]
        dot  == FirstIn(body, {"."})
    IN  IF dot = 0 THEN IsDigits(body)
        ELSE /\ IsDigits(SubSeq(body, 1, dot - 1))
             /\ IsDigits(SubSeq(body, dot + 1, Len(body)))

\* the coercion of the claim, of the raw text c, met by the stored value v
Coerced(c, v) ==
    /\ trim(c) = <<>> => v = Str(<<>>)
    /\ IsSignedDecimal(trim(c)) => v.kind = "number"
    /\ (trim(c) # <<>> /\ ~IsSignedDecimal(trim(c))) => v = Str(trim(c))

\* C9 as claimed: every ingested cell is coerced, whatever the source and
\* whichever table it is loaded into: Empty for an empty trimmed text, a
\* Number for an optionally signed integer or decimal, the outer-trimmed
\* Text otherwise.
C9_CoercionEverywhere ==
    /\ HoldsCell(table1) => Coerced(payload.cell, Get(table1[1], K))
    /\ HoldsCell(table2) => Coerced(payload.cell, Get(table2[1], K))
    /\ HoldsCell(table) => Coerced(payload.cell, Get(table[1], K))

\* the values of a JSON array of objects are stored as decoded
StoredAsDecoded(t) ==
    LET p == JSONparse(payload.text)
    IN  (/\ payload.ext = "json" /\ ~p.threw /\ p.value.t = "array"
         /\ \A n \in 1..Len(p.value.items) : p.value.items[n].t = "object")
        => /\ Len(t) = Len(p.value.items)
           /\ \A n \in 1..Len(t) :
                LET props == p.value.items[n].props
                IN  \A c \in 1..Len(props) :
                      (\A d \in (c + 1)..Len(props) :
                          toLowerCase(props[d].col) # toLowerCase(props[c].col))
                      => Get(t[n], toLowerCase(props[c].col)) = props[c].val

\* C9 amended: value coercion is applied only by the App-level parseCSV and
\* parsePastedTable, to the fields of delimited text: a field whose trimmed
\* text is empty is stored as '', a field whose trimmed text Number()
\* accepts (every optionally signed integer or decimal, and exponent
\* notation besides) is stored as a Number, and any other field is stored
\* as the outer-trimmed Text. The component's own parseCSV and
\* parsePastedTable store every field as the raw string (untrimmed but for
\* the trim of the whole text, never a Number), and the values of a JSON
\* file are stored as decoded.
C9_CoercionInAppParsersOnly ==
    /\ HoldsCell(table) =>
          LET c == payload.cell
              v == Get(table[1], K)
          IN  /\ trim(c) = <<>> => v = Str(<<>>)
              /\ IsSignedDecimal(trim(c)) => v.kind = "number"
              /\ v.kind = "number" =>
                    \/ IsSignedDecimal(trim(c))
                    \/ \E x \in 1..Len(c) : c[x] \in {"e", "."}
              /\ v.kind = "string" => v.s = trim(c)
              /\ v.kind \in {"number", "string"}
    /\ \A t \in {table1, table2} :
          HoldsCell(t) =>
              /\ Get(t[1], K).kind = "string"
              /\ Get(t[1], K).s \in {payload.cell, TrimRight(payload.cell)}
    /\ op.name = "handleFile" => StoredAsDecoded(table1)

\* the cell ' 1' held as the number 1 by the Table Loader and as the text
\* ' 1' by the component's Main Table
C9_Witness ==
    /\ payload.cell = <<" ", "1">>
    /\ HoldsCell(table) /\ Get(table[1], K) = IntNum(1)
    /\ HoldsCell(table1) /\ Get(table1[1], K) = Str(<<" ", "1">>)

\* the payload is JSON text of an array with an element that is no object
HasNonObject ==
    LET p == JSONparse(payload.text)
    IN  /\ ~p.threw /\ p.value.t = "array"
        /\ \E n \in 1..Len(p.value.items) : p.value.items[n].t # "object"

\* C10: ingesting a JSON array that holds an element that is no object
\* fails with an error and produces no table, from a .json file and from a
\* paste alike.
C10_NonObjectElementsRejected ==
    /\ (HasNonObject /\ payload.ext = "json" /\ op.name = "handleFile")
          => (op.alert # "none" /\ table1 = <<>>)
    /\ (HasNonObject /\ op.name = "handlePaste")
          => (op.alert # "none" /\ table2 = <<>>)

\* the payload is the ragged text, and t holds its two rows
HoldsRagged(t) ==
    /\ payload.ext = "csv" /\ payload.text = RaggedText(payload.cell)
    /\ Len(t) = 2

\* the row has exactly the columns k and v
HasHeaderColumns(row) == ColSet(row) = {K, V} /\ Len(row) = 2

\* C16: every row produced from delimited text has exactly the header's
\* columns; a line with fewer fields than headers gets the empty string (no
\* absent or undefined entry) for each missing trailing column, and fields
\* beyond the header count are dropped. Checked for a CSV file and a paste
\* into the component and for the Table Loader.
C16_RaggedLinesPadded ==
    \A t \in {table1, table2, table} :
        HoldsRagged(t) =>
            /\ HasHeaderColumns(t[1])
            /\ Get(t[1], V) = Str(<<>>)
            /\ HasHeaderColumns(t[2])
            /\ Get(t[2], V) \in {Str(<<"a">>)}

\* the number of lines of the trimmed text
LineCount(text) ==
    Cardinality({ x \in 1..Len(trim(text)) : trim(text)[x] = NL }) + 1

\* the text starts with '[' once trimmed and is JSON of an array without a
\* null element: the JSON attempt of parsePastedTable does not throw
JSONAttemptSucceeds(text) ==
    /\ Len(trim(text)) >= 1 /\ trim(text)[1] = "["
    /\ ~JSONparse(text).threw
    /\ JSONparse(text).value.t = "array"
    /\ \A n \in 1..Len(JSONparse(text).value.items) :
          JSONparse(text).value.items[n] # JScalar(Null)

\* C17: a paste whose trimmed text starts with '[' and parses as JSON
\* yields one row per array element; any other paste (the JSON attempt
\* threw, or the text does not start with '[') is parsed as delimited text,
\* one row per line after the header line, so that fewer than two lines
\* yield the empty table; in no case does an error reach the caller.
C17_PasteDispatch ==
    op.name = "handlePaste" =>
        /\ op.alert = "none"
        /\ IF JSONAttemptSucceeds(payload.text)
           THEN /\ Len(table2) = Len(JSONparse(payload.text).value.items)
                /\ StoredAsDecoded(table2)
           ELSE /\ Len(table2) = LineCount(payload.text) - 1
                /\ payload.text = BrokenJSON =>
                      table2 = << << Prop(<<"[", "k">>, Str(<<"1">>)),
                                     Prop(V, Str(<<"x">>)) >> >>

\* the text '[k,v / 1,x' pasted: the JSON attempt threw and the delimited
\* parse produced a row
C17_Witness ==
    /\ op.name = "handlePaste" /\ op.alert = "none"
    /\ payload.text = BrokenJSON /\ Len(table2) = 1

-----------------------------------------------------------------------------
(* Properties of the tables under loads, merges and edits, under EditSpec *)

UpperChars == { "K", "V", "W", "A", "X" }

\* every column name of every row of t is lower-case
LowerCaseColumns(t) ==
    \A n \in 1..Len(t) : \A c \in 1..Len(t[n]) :
        \A x \in 1..Len(t[n][c].col) : t[n][c].col[x] \notin UpperChars

\* C18: after any sequence of file loads, pastes, cell edits, header
\* renames and merges every column name of every row of table1, table2 and
\* the merged table is lower-case; and handleMerge and the highlight look
\* rows up under the lower-cased merge key: the rows handleMerge overlaid
\* have equal values at that column, and the rows it appended are marked
\* Added throughout.
C18_LowerCaseColumns ==
    /\ LowerCaseColumns(table1)
    /\ LowerCaseColumns(table2)
    /\ LowerCaseColumns(mergedTable)
    /\ Merged => \A n \in 1..Len(op.src) :
          /\ Overlaid(n) => KeyOf(table1[op.src[n].src1])
                               = KeyOf(table2[op.src[n].src2])
          /\ op.src[n].src1 = 0 =>
                \A c \in MergedCols : CellClass(n, c) = "Added"

\* the header v of the merged table renamed by typing 'W'
C18_Witness ==
    /\ op.name = "handleHeaderChange" /\ op.target = 4
    /\ mergedTable # <<>> /\ Has(mergedTable[1], W)
    /\ table1 # <<>> /\ ~Has(table1[1], W)
    /\ table2 # <<>> /\ ~Has(table2[1], W)

\* C19: handleMerge leaves table1 and table2 as they are, and a cell edit
\* or header rename changes no table but the one edited: an edit of the
\* merged table changes neither table1 nor table2, and an edit of table1 or
\* table2 does not change the merged table.
C19_NoAliasing ==
    [][ /\ op'.name = "handleMerge"
            => (table1' = table1 /\ table2' = table2)
        /\ op'.name \in {"handleCellChange", "handleHeaderChange"}
            => /\ op'.target # 1 => table1' = table1
               /\ op'.target # 2 => table2' = table2
               /\ op'.target # 4 => mergedTable' = mergedTable ]_vars

\* the key cell of the merged row edited to 'e' while the table1 row it was
\* copied from still holds 1
C19_Witness ==
    /\ op.name = "handleCellChange" /\ op.target = 4
    /\ mergedTable # <<>> /\ Get(mergedTable[1], K) = Str(<<"e">>)
    /\ table1 # <<>> /\ Get(table1[1], K) = IntNum(1)

\* t is non-empty and its first row has a first column with a name
HasFirstCol(t) == Len(t) > 0 /\ Len(t[1]) > 0 /\ t[1][1].col # <<>>

\* C21: after every change of table2 (load, paste, cell edit or header
\* rename) that leaves it non-empty with a non-empty first column name in
\* its first row, the merge key equals that name case-insensitively,
\* whatever was typed before; a change of table1 or of the merged table
\* leaves the merge key as it is, and typing a key sets the key typed and
\* leaves table2 as it is.
C21_MergeKeyFollowsTable2 ==
    [][ /\ (/\ op'.target = 2
            /\ table2' # table2 \/ op'.name \in {"handlePaste",
                                                 "handleCellChange"}
            /\ HasFirstCol(table2'))
           => toLowerCase(mergeKey') = toLowerCase(table2'[1][1].col)
        /\ (op'.target \in {1, 4} \/ op'.name = "handleMerge")
           => mergeKey' = mergeKey
        /\ op'.name = "setMergeKey"
           => (mergeKey' \in EditKeys /\ table2' = table2) ]_vars

\* the key reset to w by an edit of table2 after 'K' was typed
C21_Witness ==
    /\ op.name = "handleCellChange" /\ op.target = 2
    /\ HasFirstCol(table2) /\ table2[1][1].col = W
    /\ mergeKey = W /\ edits = 2

\* t2 is t with one of its cells committed with the text it showed
UnchangedCommit(t, t2) ==
    \E rowIdx \in 1..Len(t) : \E col \in EditCols :
        /\ \E c \in 1..Len(getAllColumns(t)) : getAllColumns(t)[c] = col
        /\ t2 = handleCellChange(t, rowIdx, col, EditingValue(t[rowIdx], col))

\* the merged table handleMerge yields, and its alert
MergeOf(t1, t2, mKey) ==
    [alert |-> handleMerge(t1, t2, mKey).alert,
     rows  |-> [n \in 1..Len(handleMerge(t1, t2, mKey).rows) |->
                  handleMerge(t1, t2, mKey).rows[n].row]]

\* C22: committing a cell of table1 or table2 with its text unmodified
\* leaves what handleMerge yields as it was, a key cell holding a Number
\* included; leaving the editor with Escape changes none of the tables.
C22_UnchangedCommitKeepsMerge ==
    [][ /\ (/\ op'.name = "handleCellChange"
            /\ \/ op'.target = 1 /\ UnchangedCommit(table1, table1')
               \/ op'.target = 2 /\ UnchangedCommit(table2, table2'))
           => MergeOf(table1', table2', mergeKey')
                 = MergeOf(table1, table2, mergeKey)
        /\ op'.name = "cancelEdit"
           => /\ table1' = table1 /\ table2' = table2
              /\ mergedTable' = mergedTable ]_vars

\* the names handleHeaderChange is called with: the headers typed,
\* lower-cased
NewNames == { <<"w">>, <<"k">>, <<>> }

\* the place of column c in the row's column order
Pos(row, c) == CHOOSE i \in 1..Len(row) : row[i].col = c

\* row2 is row with the column old renamed to new
RowRenamed(row, row2, old, new) ==
    IF ~Has(row, old) THEN row2 = row
    ELSE /\ ~Has(row2, old)
         /\ ColSet(row2) = (ColSet(row) \ {old}) \cup {new}
         /\ Len(row2) = Cardinality(ColSet(row2))
         /\ \A c \in ColSet(row) \ {old, new} : Get(row2, c) = Get(row, c)
         /\ Get(row2, new) = IF Has(row, new) /\ Pos(row, new) > Pos(row, old)
                             THEN Get(row, new)
                             ELSE Get(row, old)

\* t2 is what handleHeaderChange makes of t
TableRenamed(t, t2, old, new) ==
    IF new = <<>> \/ old = new THEN t2 = t
    ELSE /\ Len(t2) = Len(t)
         /\ \A n \in 1..Len(t) : RowRenamed(t[n], t2[n], old, new)

\* C23: handleHeaderChange with an empty new name or the old name leaves
\* the table as it is; otherwise only the table named changes, none of its
\* rows holds the old column afterwards, every other column keeps its
\* value, and where the new name was already a column of the row the two
\* collapse into one that holds the value of whichever came later in the
\* row's column order.
C23_HeaderRename ==
    [][ op'.name = "handleHeaderChange" =>
          /\ op'.target # 1 => table1' = table1
          /\ op'.target # 2 => table2' = table2
          /\ op'.target # 4 => mergedTable' = mergedTable
          /\ \E old \in EditCols : \E new \in NewNames :
                /\ \E c \in 1..Len(getAllColumns(TableOf(op'.target))) :
                      getAllColumns(TableOf(op'.target))[c] = old
                /\ op'.target = 1 => TableRenamed(table1, table1', old, new)
                /\ op'.target = 2 => TableRenamed(table2, table2', old, new)
                /\ op'.target = 4
                      => TableRenamed(mergedTable, mergedTable', old, new)
      ]_vars

\* the header v of table1 = [{k:1,v:'x'}] renamed to k: the row collapses
\* to {k:'x'}, the value of the later column
C23_Witness ==
    /\ op.name = "handleHeaderChange" /\ op.target = 1
    /\ table1 = << << Prop(K, Str(<<"x">>)) >> >>

=============================================================================
